---- MODULE Spec2Model ----
(***************************************************************************)
(* Model of the gripper training stack: GripperTrainer (the orchestrator   *)
(* with its error-recovery cascade), the rotation Environment              *)
(* (goal / reward / termination) and the translation reward functions.     *)
(***************************************************************************)
EXTENDS Integers, Sequences, FiniteSets, TLC

(***************************************************************************)
(* Bounds of the model.                                                    *)
(***************************************************************************)
\* train_config.max_steps_training: iterations of the training loop
MaxStepsTraining == 3
\* nesting allowed to the recursion of environment_reset
MaxResetDepth == 3
\* the valve yaws the world can take in the trainer model: k * YawStride mod 360
NumYaws == 5
YawStride == 89
\* the rotation reward harness draws the pre-move yaw from the multiples of this
BeforeStride == 30
\* translation harness: object and goal positions on the grid 0..GridMax squared
GridMax == 3
\* translation harness: env_config.noise_tolerance is drawn from 1..MaxTolerance
MaxTolerance == 2
\* fixed-point resolution of a Euclidean distance: units of 1/DistScale
DistScale == 10

(***************************************************************************)
(* Program constants.                                                      *)
(***************************************************************************)
FullCircle == 360
RotNoiseBand == 3
RotTolerance == 3
RotGoalBonus == 100
TranslationGoalBonus == 500
NotFoundYaw == -1

\* Python's None; a pose that is available is a non-empty tuple
None == <<>>

Abs(x) == IF x < 0 THEN -x ELSE x

\* the yaws the valve can have in the trainer model
WorldYaws == {(k * YawStride) % FullCircle : k \in 0..(NumYaws - 1)}

(***************************************************************************)
(* Environment (rotation task), gripper_environment.py                     *)
(***************************************************************************)
\* choose_target_angle, for the value r drawn by np.random.randint(1, 5)
choose_target_angle(r) ==
    IF r = 1 THEN 90
    ELSE IF r = 2 THEN 180
    ELSE IF r = 3 THEN 270
    ELSE IF r = 4 THEN 0
    ELSE -1

RandintDraws_UpperInclusive == 1..5

\* np.random.randint(1, 5): the upper end is excluded
RandintDraws == 1..4

\* get_marker_pose: the pose of marker 0 when the detector found it, else None
get_marker_pose(detected, yaw) == IF detected THEN <<yaw>> ELSE None

reward_function_ClosesAt500(target, start_pose, final_pose) ==
    IF final_pose = None THEN [reward |-> 0, done |-> TRUE, raised |-> FALSE]
    ELSE IF start_pose = None THEN [reward |-> 0, done |-> TRUE, raised |-> FALSE]
    ELSE LET valve_angle_before == start_pose[1]
             valve_angle_after == final_pose[1]
             angle_difference == Abs(target - valve_angle_after)
             delta_changes == Abs(target - valve_angle_before)
                                - Abs(target - valve_angle_after)
             reward == IF -RotNoiseBand <= delta_changes /\ delta_changes <= RotNoiseBand
                       THEN 0 ELSE delta_changes
         IN  IF angle_difference <= RotTolerance
             THEN [reward |-> TranslationGoalBonus, done |-> TRUE, raised |-> FALSE]
             ELSE [reward |-> reward, done |-> FALSE, raised |-> FALSE]

reward_function_StrictBand(target, start_pose, final_pose) ==
    IF final_pose = None THEN [reward |-> 0, done |-> TRUE, raised |-> FALSE]
    ELSE IF start_pose = None THEN [reward |-> 0, done |-> TRUE, raised |-> FALSE]
    ELSE LET valve_angle_before == start_pose[1]
             valve_angle_after == final_pose[1]
             angle_difference == Abs(target - valve_angle_after)
             delta_changes == Abs(target - valve_angle_before)
                                - Abs(target - valve_angle_after)
             reward == IF -RotNoiseBand < delta_changes /\ delta_changes < RotNoiseBand
                       THEN 0 ELSE delta_changes
         IN  IF angle_difference <= RotTolerance
             THEN [reward |-> reward + RotGoalBonus, done |-> TRUE, raised |-> FALSE]
             ELSE [reward |-> reward, done |-> FALSE, raised |-> FALSE]

\* Environment.reward_function: (reward, terminated); raised marks an exception
reward_function(target, start_pose, final_pose) ==
    IF final_pose = None THEN [reward |-> 0, done |-> TRUE, raised |-> FALSE]
    ELSE IF start_pose = None THEN [reward |-> 0, done |-> TRUE, raised |-> FALSE]
    ELSE LET valve_angle_before == start_pose[1]
             valve_angle_after == final_pose[1]
             angle_difference == Abs(target - valve_angle_after)
             delta_changes == Abs(target - valve_angle_before)
                                - Abs(target - valve_angle_after)
             reward == IF -RotNoiseBand <= delta_changes /\ delta_changes <= RotNoiseBand
                       THEN 0 ELSE delta_changes
         IN  IF angle_difference <= RotTolerance
             THEN [reward |-> reward + RotGoalBonus, done |-> TRUE, raised |-> FALSE]
             ELSE [reward |-> reward, done |-> FALSE, raised |-> FALSE]

\* the yaw appended to the observation: -1 when the marker was not found
marker_yaw(pose) == IF pose = None THEN NotFoundYaw ELSE pose[1]

(***************************************************************************)
(* Translation reward functions.  A Euclidean distance is kept in fixed    *)
(* point, in units of 1/DistScale (rounded down).                          *)
(***************************************************************************)
ISqrt(n) == CHOOSE r \in 0..(2 * GridMax * DistScale + DistScale) :
                r * r <= n /\ (r + 1) * (r + 1) > n

\* np.linalg.norm(a - b) and math.dist(a, b) on the first two components
Dist(a, b) ==
    ISqrt(DistScale * DistScale
            * ((a[1] - b[1]) * (a[1] - b[1]) + (a[2] - b[2]) * (a[2] - b[2])))

TranslationEnvironment_reward_function_FromStart(noise_tolerance, target_goal, goal_before, goal_after) ==
    IF goal_before = None THEN [reward |-> 0, done |-> TRUE, raised |-> FALSE]
    ELSE IF goal_after = None THEN [reward |-> 0, done |-> TRUE, raised |-> FALSE]
    ELSE LET goal_difference == Dist(target_goal, goal_before)
         IN  IF goal_difference <= noise_tolerance * DistScale
             THEN [reward |-> TranslationGoalBonus * DistScale, done |-> TRUE,
                   raised |-> FALSE]
             ELSE [reward |-> -goal_difference, done |-> FALSE, raised |-> FALSE]

\* TranslationEnvironment.reward_function; rewards are in units of 1/DistScale
TranslationEnvironment_reward_function(noise_tolerance, target_goal, goal_before, goal_after) ==
    IF goal_before = None THEN [reward |-> 0, done |-> TRUE, raised |-> FALSE]
    ELSE IF goal_after = None THEN [reward |-> 0, done |-> TRUE, raised |-> FALSE]
    ELSE LET goal_difference == Dist(target_goal, goal_after)
         IN  IF goal_difference <= noise_tolerance * DistScale
             THEN [reward |-> TranslationGoalBonus * DistScale, done |-> TRUE,
                   raised |-> FALSE]
             ELSE [reward |-> -goal_difference, done |-> FALSE, raised |-> FALSE]

\* TwoFingerTranslation._reward_function; object_previous and object_current are
\* the object poses of the two environment infos.  Subscripting a pose that is
\* None raises TypeError (lines 72-73 test nothing before subscripting).
TwoFingerTranslation_reward_function(noise_tolerance, target_goal, object_previous, object_current) ==
    IF object_previous = None \/ object_current = None
    THEN [reward |-> 0, done |-> FALSE, raised |-> TRUE]
    ELSE LET goal_distance_before == Dist(target_goal, object_previous)
             goal_distance_after == Dist(target_goal, object_current)
             goal_progress == goal_distance_before - goal_distance_after
         IN  IF goal_distance_after <= noise_tolerance * DistScale
             THEN [reward |-> TranslationGoalBonus * DistScale, done |-> TRUE,
                   raised |-> FALSE]
             ELSE [reward |-> 0 + goal_progress, done |-> FALSE, raised |-> FALSE]


(***************************************************************************)
(* State.                                                                  *)
(***************************************************************************)
VARIABLES
    pc,                 \* position of the single thread of control
    resetCaller,        \* who called environment_reset: "start" or "episode_end"
    resetDepth,         \* active frames of environment_reset
    resetRecoveries,    \* handle_gripper_error_home calls in the running environment_reset
    stepRecoveries,     \* handle_gripper_error_home calls in the running environment_step
    total_step_counter, \* train: loop variable
    episode_num,        \* train: episodes finished
    state,              \* train: last observation (the marker yaw component)
    ret,                \* what environment_step returned to the loop
    target_angle,       \* Environment.target_angle
    valveYaw,           \* the yaw of the physical valve
    start_marker_pose,  \* Environment.step local: pose and whether read after the move
    final_marker_pose,  \* Environment.step local: pose and whether read after the move
    moved,              \* whether gripper.move was issued in the running Environment.step
    events,             \* the events of the running Environment.step, in order
    gripper_closed,     \* environment.gripper.close() was called
    models_saved,       \* agent.save_models("error_models", ...) was called
    rf,                 \* the reward-function harness
    aruco,              \* the running call of ArucoObject.get_yaw
    magnet,             \* the running call of MagnetObject.get_yaw / offset
    servo,              \* one Servo, its registers and its last operation
    loop                \* train and evaluation_loop with the environment's results as inputs

trainerVars == <<resetCaller, resetDepth, resetRecoveries, stepRecoveries,
                 total_step_counter, episode_num, state, ret>>
envVars == <<target_angle, valveYaw, start_marker_pose, final_marker_pose, moved, events>>
exitVars == <<gripper_closed, models_saved>>
deviceVars == <<aruco, magnet, servo>>
vars == <<pc, trainerVars, envVars, exitVars, rf, loop, deviceVars>>

NoRet == [reward |-> 0, done |-> FALSE, truncated |-> FALSE, recovered |-> FALSE,
          returned |-> FALSE]
NoSample == [pose |-> None, afterMove |-> FALSE]
RfIdle == [variant |-> "none"]
ArucoIdle == [pc |-> "none"]
MagnetIdle == [pc |-> "none"]
ServoIdle == [pc |-> "none"]
LoopIdle == [pc |-> "none"]

Init ==
    /\ pc = "train_start"
    /\ resetCaller = "start"
    /\ resetDepth = 0
    /\ resetRecoveries = 0
    /\ stepRecoveries = 0
    /\ total_step_counter = 0
    /\ episode_num = 0
    /\ state = NotFoundYaw
    /\ ret = NoRet
    /\ target_angle \in {choose_target_angle(r) : r \in RandintDraws}
    /\ valveYaw \in WorldYaws
    /\ start_marker_pose = NoSample
    /\ final_marker_pose = NoSample
    /\ moved = FALSE
    /\ events = <<>>
    /\ gripper_closed = FALSE
    /\ models_saved = FALSE
    /\ rf = RfIdle
    /\ aruco = ArucoIdle
    /\ magnet = MagnetIdle
    /\ servo = ServoIdle
    /\ loop = LoopIdle

(***************************************************************************)
(* GripperTrainer.train, gripper_trainer.py                                *)
(***************************************************************************)
\* line 255: state = self.environment_reset()
TrainStart ==
    /\ pc = "train_start"
    /\ pc' = "reset_try"
    /\ resetCaller' = "start"
    /\ resetDepth' = 1
    /\ resetRecoveries' = 0
    /\ UNCHANGED <<stepRecoveries, total_step_counter, episode_num, state, ret,
                   envVars, exitVars, rf, loop, deviceVars>>

\* lines 258-283: loop test, action selection, call of environment_step
TrainSelect ==
    /\ pc = "train_loop"
    /\ IF total_step_counter < MaxStepsTraining
       THEN /\ pc' = "step_read_start"
            /\ stepRecoveries' = 0
            /\ ret' = NoRet
            /\ start_marker_pose' = NoSample
            /\ final_marker_pose' = NoSample
            /\ moved' = FALSE
            /\ events' = <<>>
       ELSE /\ pc' = "train_done"
            /\ UNCHANGED <<stepRecoveries, ret, start_marker_pose, final_marker_pose,
                           moved, events>>
    /\ UNCHANGED <<resetCaller, resetDepth, resetRecoveries, total_step_counter,
                   episode_num, state, target_angle, valveYaw, exitVars, rf, loop, deviceVars>>

\* lines 285-345: the rest of the iteration after environment_step returned
TrainRecord ==
    /\ pc = "train_record"
    /\ IF ret.done \/ ret.truncated
       THEN /\ pc' = "reset_try"
            /\ resetCaller' = "episode_end"
            /\ resetDepth' = 1
            /\ resetRecoveries' = 0
            /\ UNCHANGED total_step_counter
       ELSE /\ pc' = "train_loop"
            /\ total_step_counter' = total_step_counter + 1
            /\ UNCHANGED <<resetCaller, resetDepth, resetRecoveries>>
    /\ UNCHANGED <<stepRecoveries, episode_num, state, ret, envVars, exitVars, rf, loop, deviceVars>>

(***************************************************************************)
(* GripperTrainer.environment_reset                                        *)
(***************************************************************************)
\* lines 99-100 with Environment.reset (gripper_environment.py 17-30):
\* gripper.home() raises, or the marker is read and a fresh goal is chosen
EnvironmentResetTry ==
    /\ pc = "reset_try"
    /\ \E raises \in BOOLEAN :
         IF raises
         THEN /\ pc' = "reset_except"
              /\ UNCHANGED <<resetDepth, total_step_counter, episode_num, state,
                             target_angle>>
         ELSE /\ \E detected \in BOOLEAN, r \in RandintDraws :
                   /\ state' = marker_yaw(get_marker_pose(detected, valveYaw))
                   /\ target_angle' = choose_target_angle(r)
              /\ resetDepth' = 0
              /\ pc' = "train_loop"
              /\ IF resetCaller = "episode_end"
                 THEN /\ episode_num' = episode_num + 1
                      /\ total_step_counter' = total_step_counter + 1
                 ELSE UNCHANGED <<episode_num, total_step_counter>>
    /\ UNCHANGED <<resetCaller, resetRecoveries, stepRecoveries, ret, valveYaw,
                   start_marker_pose, final_marker_pose, moved, events, exitVars, rf, loop, deviceVars>>

\* lines 101-113: the except branch
EnvironmentResetExcept ==
    /\ pc = "reset_except"
    /\ resetRecoveries' = resetRecoveries + 1
    /\ \E recovered \in BOOLEAN :
         IF recovered
         THEN /\ resetDepth < MaxResetDepth
              /\ resetDepth' = resetDepth + 1
              /\ pc' = "reset_try"
              /\ UNCHANGED exitVars
         ELSE /\ gripper_closed' = TRUE
              /\ models_saved' = TRUE
              /\ pc' = "exited_reset"
              /\ UNCHANGED resetDepth
    /\ UNCHANGED <<resetCaller, stepRecoveries, total_step_counter, episode_num, state,
                   ret, envVars, rf, loop, deviceVars>>

(***************************************************************************)
(* Environment.step, gripper_environment.py 98-116                         *)
(***************************************************************************)
\* line 101: start_marker_pose = self.get_marker_pose(marker_id=0)
EnvStepReadStart ==
    /\ pc = "step_read_start"
    /\ \E detected \in BOOLEAN :
         start_marker_pose' = [pose |-> get_marker_pose(detected, valveYaw),
                               afterMove |-> moved]
    /\ events' = Append(events, "read_start")
    /\ pc' = "step_move"
    /\ UNCHANGED <<trainerVars, target_angle, valveYaw, final_marker_pose, moved,
                   exitVars, rf, loop, deviceVars>>

EnvStepMove_SkipsFinalRead ==
    /\ pc = "step_move"
    /\ \E raises \in BOOLEAN, yaw \in WorldYaws :
         /\ valveYaw' = yaw
         /\ pc' = IF raises THEN "step_except" ELSE "step_reward"
    /\ moved' = TRUE
    /\ events' = Append(events, "move")
    /\ UNCHANGED <<trainerVars, target_angle, start_marker_pose, final_marker_pose,
                   exitVars, rf, loop, deviceVars>>

\* line 103: state, gripper_error = self.gripper.move(action=action); the valve
\* turns to some yaw, and the move returns or raises GripperError
EnvStepMove ==
    /\ pc = "step_move"
    /\ \E raises \in BOOLEAN, yaw \in WorldYaws :
         /\ valveYaw' = yaw
         /\ pc' = IF raises THEN "step_except" ELSE "step_read_final"
    /\ moved' = TRUE
    /\ events' = Append(events, "move")
    /\ UNCHANGED <<trainerVars, target_angle, start_marker_pose, final_marker_pose,
                   exitVars, rf, loop, deviceVars>>

\* line 105: final_marker_pose = self.get_marker_pose(marker_id=0)
EnvStepReadFinal ==
    /\ pc = "step_read_final"
    /\ \E detected \in BOOLEAN :
         final_marker_pose' = [pose |-> get_marker_pose(detected, valveYaw),
                               afterMove |-> moved]
    /\ events' = Append(events, "read_final")
    /\ pc' = "step_reward"
    /\ UNCHANGED <<trainerVars, target_angle, valveYaw, start_marker_pose, moved,
                   exitVars, rf, loop, deviceVars>>

EnvStepReward_ResamplesGoal ==
    /\ pc = "step_reward"
    /\ LET out == reward_function(target_angle, start_marker_pose.pose,
                                  final_marker_pose.pose)
       IN  ret' = [reward |-> out.reward, done |-> out.done, truncated |-> FALSE,
                   recovered |-> FALSE, returned |-> TRUE]
    /\ events' = Append(events, "reward")
    /\ pc' = "train_record"
    /\ state' = marker_yaw(final_marker_pose.pose)
    /\ \E r \in RandintDraws : target_angle' = choose_target_angle(r)
    /\ UNCHANGED <<resetCaller, resetDepth, resetRecoveries, stepRecoveries,
                   total_step_counter, episode_num, valveYaw,
                   start_marker_pose, final_marker_pose, moved, exitVars, rf, loop, deviceVars>>

EnvStepReward_Truncates ==
    /\ pc = "step_reward"
    /\ LET out == reward_function(target_angle, start_marker_pose.pose,
                                  final_marker_pose.pose)
       IN  ret' = [reward |-> out.reward, done |-> out.done, truncated |-> ~out.done,
                   recovered |-> FALSE, returned |-> TRUE]
    /\ events' = Append(events, "reward")
    /\ pc' = "train_record"
    /\ state' = marker_yaw(final_marker_pose.pose)
    /\ UNCHANGED <<resetCaller, resetDepth, resetRecoveries, stepRecoveries,
                   total_step_counter, episode_num, target_angle, valveYaw,
                   start_marker_pose, final_marker_pose, moved, exitVars, rf, loop, deviceVars>>

\* lines 107-116: the reward, truncated = False, and the return to the trainer
\* (gripper_trainer.py 281 and 297: next_state becomes state)
EnvStepReward ==
    /\ pc = "step_reward"
    /\ LET out == reward_function(target_angle, start_marker_pose.pose,
                                  final_marker_pose.pose)
       IN  ret' = [reward |-> out.reward, done |-> out.done, truncated |-> FALSE,
                   recovered |-> FALSE, returned |-> TRUE]
    /\ events' = Append(events, "reward")
    /\ pc' = "train_record"
    /\ state' = marker_yaw(final_marker_pose.pose)
    /\ UNCHANGED <<resetCaller, resetDepth, resetRecoveries, stepRecoveries,
                   total_step_counter, episode_num, target_angle, valveYaw,
                   start_marker_pose, final_marker_pose, moved, exitVars, rf, loop, deviceVars>>

(***************************************************************************)
(* GripperTrainer.environment_step, the except branch (lines 132-145)      *)
(***************************************************************************)
EnvironmentStepExcept_RetriesRecovery ==
    /\ pc = "step_except"
    /\ stepRecoveries' = stepRecoveries + 1
    /\ \E recovered \in BOOLEAN, detected \in BOOLEAN :
         IF recovered
         THEN /\ state' = marker_yaw(get_marker_pose(detected, valveYaw))
              /\ ret' = [reward |-> 0, done |-> FALSE, truncated |-> FALSE,
                         recovered |-> TRUE, returned |-> TRUE]
              /\ pc' = "train_record"
         ELSE /\ pc' = "step_except"
              /\ UNCHANGED <<state, ret>>
    /\ UNCHANGED <<resetCaller, resetDepth, resetRecoveries, total_step_counter,
                   episode_num, envVars, exitVars, rf, loop, deviceVars>>

EnvironmentStepExcept_EndsEpisode ==
    /\ pc = "step_except"
    /\ stepRecoveries' = stepRecoveries + 1
    /\ \E recovered \in BOOLEAN, detected \in BOOLEAN :
         IF recovered
         THEN /\ state' = marker_yaw(get_marker_pose(detected, valveYaw))
              /\ ret' = [reward |-> 0, done |-> TRUE, truncated |-> FALSE,
                         recovered |-> TRUE, returned |-> TRUE]
              /\ pc' = "train_record"
              /\ UNCHANGED exitVars
         ELSE /\ gripper_closed' = TRUE
              /\ models_saved' = TRUE
              /\ pc' = "exited_step"
              /\ UNCHANGED <<state, ret>>
    /\ UNCHANGED <<resetCaller, resetDepth, resetRecoveries, total_step_counter,
                   episode_num, envVars, rf, loop, deviceVars>>

EnvironmentStepExcept_ExitsBeforeSave ==
    /\ pc = "step_except"
    /\ stepRecoveries' = stepRecoveries + 1
    /\ \E recovered \in BOOLEAN, detected \in BOOLEAN :
         IF recovered
         THEN /\ state' = marker_yaw(get_marker_pose(detected, valveYaw))
              /\ ret' = [reward |-> 0, done |-> FALSE, truncated |-> FALSE,
                         recovered |-> TRUE, returned |-> TRUE]
              /\ pc' = "train_record"
              /\ UNCHANGED exitVars
         ELSE /\ gripper_closed' = TRUE
              /\ pc' = "exited_step"
              /\ UNCHANGED <<state, ret, models_saved>>
    /\ UNCHANGED <<resetCaller, resetDepth, resetRecoveries, total_step_counter,
                   episode_num, envVars, rf, loop, deviceVars>>

\* one call of handle_gripper_error_home; recovered: the object pose is read and
\* (state, 0, False, False) returned; not recovered: close, save_models, exit(1)
EnvironmentStepExcept ==
    /\ pc = "step_except"
    /\ stepRecoveries' = stepRecoveries + 1
    /\ \E recovered \in BOOLEAN, detected \in BOOLEAN :
         IF recovered
         THEN /\ state' = marker_yaw(get_marker_pose(detected, valveYaw))
              /\ ret' = [reward |-> 0, done |-> FALSE, truncated |-> FALSE,
                         recovered |-> TRUE, returned |-> TRUE]
              /\ pc' = "train_record"
              /\ UNCHANGED exitVars
         ELSE /\ gripper_closed' = TRUE
              /\ models_saved' = TRUE
              /\ pc' = "exited_step"
              /\ UNCHANGED <<state, ret>>
    /\ UNCHANGED <<resetCaller, resetDepth, resetRecoveries, total_step_counter,
                   episode_num, envVars, rf, loop, deviceVars>>

Next ==
    \/ TrainStart
    \/ TrainSelect
    \/ TrainRecord
    \/ EnvironmentResetTry
    \/ EnvironmentResetExcept
    \/ EnvStepReadStart
    \/ EnvStepMove
    \/ EnvStepReadFinal
    \/ EnvStepReward
    \/ EnvironmentStepExcept

Spec == Init /\ [][Next]_vars

(***************************************************************************)
(* The reward functions as pure functions: the inputs of one call are      *)
(* drawn at the start and the call is applied to them.                     *)
(***************************************************************************)
NoOut == [reward |-> 0, done |-> FALSE, raised |-> FALSE]

Grid == (0..GridMax) \X (0..GridMax)
GridPoses == {None} \cup {<<p[1], p[2]>> : p \in Grid}
RotationBefore == {None} \cup {<<y>> : y \in {z \in 0..(FullCircle - 1) : z % BeforeStride = 0}}
RotationAfter == {None} \cup {<<y>> : y \in 0..(FullCircle - 1)}

\* the inputs of one call of a reward function
RewardInput(v, t, g, b, a) ==
    [variant |-> v, tol |-> t, target |-> g, before |-> b, after |-> a,
     applied |-> FALSE, out |-> NoOut]

InitReward ==
    /\ pc = "harness"
    /\ resetCaller = "start"
    /\ resetDepth = 0
    /\ resetRecoveries = 0
    /\ stepRecoveries = 0
    /\ total_step_counter = 0
    /\ episode_num = 0
    /\ state = NotFoundYaw
    /\ ret = NoRet
    /\ target_angle = 0
    /\ valveYaw = 0
    /\ start_marker_pose = NoSample
    /\ final_marker_pose = NoSample
    /\ moved = FALSE
    /\ events = <<>>
    /\ gripper_closed = FALSE
    /\ models_saved = FALSE
    /\ aruco = ArucoIdle
    /\ magnet = MagnetIdle
    /\ servo = ServoIdle
    /\ loop = LoopIdle
    /\ \/ \E r \in RandintDraws, b \in RotationBefore, a \in RotationAfter :
            rf = RewardInput("rotation", RotTolerance, <<choose_target_angle(r)>>, b, a)
       \/ \E v \in {"translation", "two_finger"}, t \in 1..MaxTolerance, g \in Grid,
             b \in GridPoses, a \in GridPoses :
            rf = RewardInput(v, t, <<g[1], g[2]>>, b, a)

RewardRotation ==
    /\ rf.variant = "rotation" /\ ~rf.applied
    /\ rf' = [rf EXCEPT !.applied = TRUE,
                        !.out = reward_function(rf.target[1], rf.before, rf.after)]
    /\ UNCHANGED <<pc, trainerVars, envVars, exitVars, loop, deviceVars>>

RewardTranslation ==
    /\ rf.variant = "translation" /\ ~rf.applied
    /\ rf' = [rf EXCEPT !.applied = TRUE,
                        !.out = TranslationEnvironment_reward_function(
                                    rf.tol, rf.target, rf.before, rf.after)]
    /\ UNCHANGED <<pc, trainerVars, envVars, exitVars, loop, deviceVars>>

RewardTwoFinger ==
    /\ rf.variant = "two_finger" /\ ~rf.applied
    /\ rf' = [rf EXCEPT !.applied = TRUE,
                        !.out = TwoFingerTranslation_reward_function(
                                    rf.tol, rf.target, rf.before, rf.after)]
    /\ UNCHANGED <<pc, trainerVars, envVars, exitVars, loop, deviceVars>>

NextReward ==
    \/ RewardRotation
    \/ RewardTranslation
    \/ RewardTwoFinger

SpecReward == InitReward /\ [][NextReward]_vars

(***************************************************************************)
(* The pose sources and the servo are checked on their own: the trainer    *)
(* and the reward functions are at rest.                                   *)
(***************************************************************************)
TrainerAtRest ==
    /\ pc = "devices"
    /\ resetCaller = "start"
    /\ resetDepth = 0
    /\ resetRecoveries = 0
    /\ stepRecoveries = 0
    /\ total_step_counter = 0
    /\ episode_num = 0
    /\ state = NotFoundYaw
    /\ ret = NoRet
    /\ target_angle = 0
    /\ valveYaw = 0
    /\ start_marker_pose = NoSample
    /\ final_marker_pose = NoSample
    /\ moved = FALSE
    /\ events = <<>>
    /\ gripper_closed = FALSE
    /\ models_saved = FALSE
    /\ rf = RfIdle
    /\ loop = LoopIdle

(***************************************************************************)
(* ArucoObject.get_yaw, Objects.py 91-103                                  *)
(***************************************************************************)
\* get_yaw(blindable, detection_attempts) is called with detection_attempts
\* drawn from 0..MaxDetectionAttempts
MaxDetectionAttempts == 3
\* frames the camera delivers to one call
MaxFrames == 5

ArucoContinue_OffByOne(blindable, attempt, detection_attempts) ==
    ~blindable \/ attempt <= detection_attempts

ArucoContinue_AlwaysBounded(blindable, attempt, detection_attempts) ==
    attempt < detection_attempts

\* line 93: while not blindable or attempt < detection_attempts
ArucoContinue(blindable, attempt, detection_attempts) ==
    ~blindable \/ attempt < detection_attempts

\* line 92, the call entered: frames counts camera.get_frame() calls,
\* firstSeenAt is the first frame that held the tracked marker (0: none yet)
\* and seenYaw the yaw the detector gave for it
InitAruco ==
    /\ TrainerAtRest
    /\ magnet = MagnetIdle
    /\ servo = ServoIdle
    /\ \E b \in BOOLEAN, n \in 0..MaxDetectionAttempts :
         aruco = [pc |-> "loop", blindable |-> b, detection_attempts |-> n,
                  attempt |-> 0, frames |-> 0, firstSeenAt |-> 0,
                  seenYaw |-> NotFoundYaw, result |-> None]

\* lines 93-102: one iteration; the frame holds the tracked marker or not
ArucoGetYawFrame ==
    /\ aruco.pc = "loop"
    /\ ArucoContinue(aruco.blindable, aruco.attempt, aruco.detection_attempts)
    /\ aruco.frames < MaxFrames
    /\ \E present \in BOOLEAN, yaw \in WorldYaws :
         aruco' = IF present
                  THEN [aruco EXCEPT !.attempt = @ + 1, !.frames = @ + 1,
                                     !.firstSeenAt = aruco.frames + 1,
                                     !.seenYaw = yaw,
                                     !.result = <<yaw>>, !.pc = "returned"]
                  ELSE [aruco EXCEPT !.attempt = @ + 1, !.frames = @ + 1]
    /\ UNCHANGED <<pc, trainerVars, envVars, exitVars, rf, loop, magnet, servo>>

\* line 103: the loop condition is false, return None
ArucoGetYawGiveUp ==
    /\ aruco.pc = "loop"
    /\ ~ArucoContinue(aruco.blindable, aruco.attempt, aruco.detection_attempts)
    /\ aruco' = [aruco EXCEPT !.result = None, !.pc = "returned"]
    /\ UNCHANGED <<pc, trainerVars, envVars, exitVars, rf, loop, magnet, servo>>

NextAruco ==
    \/ ArucoGetYawFrame
    \/ ArucoGetYawGiveUp

SpecAruco == InitAruco /\ [][NextAruco]_vars

(***************************************************************************)
(* MagnetObject, Objects.py 113-152.  A line of text is a sequence of      *)
(* tokens; NL is the newline, "0xFF" a byte that is no UTF-8.              *)
(***************************************************************************)
\* tokens the microcontroller puts before the newline of one response line
MaxLineTokens == 3
\* commands one call writes before the model stops following it
MaxSends == 3

NL == "<LF>"
Alphabet == {"YAW", "OFFSET", ",", "173.5", "abc", "0xFF"}
RawLines == UNION {[1..n -> Alphabet] : n \in 0..MaxLineTokens}

read_until_DropsNewline(raw) == raw

\* serial.read_until(b'\n'): the bytes up to and including the newline (the
\* port is opened without a timeout, line 115)
read_until(raw) == Append(raw, NL)

\* bytes.decode(): UnicodeDecodeError on a byte that is no UTF-8
Decodable(line) == \A i \in 1..Len(line) : line[i] # "0xFF"

\* str.split(","): the fields between the commas, at least one
RECURSIVE Split(_)
Split(text) ==
    IF \E i \in 1..Len(text) : text[i] = ","
    THEN LET i == CHOOSE k \in 1..Len(text) :
                    text[k] = "," /\ \A j \in 1..(k - 1) : text[j] # ","
         IN  <<SubSeq(text, 1, i - 1)>> \o Split(SubSeq(text, i + 1, Len(text)))
    ELSE <<text>>

\* line 121: get_response; raised marks UnicodeDecodeError
get_response(raw) ==
    LET line == read_until(raw)
    IN  IF Decodable(line) THEN [raised |-> FALSE, fields |-> Split(line)]
        ELSE [raised |-> TRUE, fields |-> <<>>]

\* float(text): surrounding whitespace is stripped; the value is in tenths;
\* ok = FALSE is ValueError
Strip(text) == SelectSeq(text, LAMBDA t : t # NL)
float(text) ==
    IF Strip(text) = <<"173.5">> THEN [ok |-> TRUE, value |-> 1735]
    ELSE [ok |-> FALSE, value |-> 0]

\* bool(text): a string is true unless it is empty
bool(text) == text # <<>>

\* line 124: command = f"{Command.GET_YAW.value},"
GetYawCommand == <<"0", ",">>
\* line 140: command = f"{Command.OFFSET.value},{aruco_yaw}\n"
OffsetCommand(aruco_yaw) == <<"1", ",", aruco_yaw, NL>>

TagMismatch_Never(response, tag) == FALSE

\* lines 129 and 145: while response[0] != "YAW" / "OFFSET"
TagMismatch(response, tag) == response[1] # <<tag>>

\* what the line shows to an observer of the wire: it starts with the tag and
\* a comma
Tagged(raw, tag) == Len(raw) >= 2 /\ raw[1] = tag /\ raw[2] = ","

\* the call entered, nothing written yet; written are the requests written to
\* the serial channel, mismatched the decodable responses read that were not
\* tagged as expected, tagged those that were, last the last line read
InitMagnet ==
    /\ TrainerAtRest
    /\ aruco = ArucoIdle
    /\ servo = ServoIdle
    /\ \E c \in {"get_yaw", "offset"} :
         magnet = [pc |-> "call", cmd |-> c, written |-> <<>>, mismatched |-> 0,
                   tagged |-> 0, last |-> <<>>, result |-> None]

\* line 126: the first serial.write of get_yaw
MagnetGetYawSend ==
    /\ magnet.pc = "call" /\ magnet.cmd = "get_yaw"
    /\ magnet' = [magnet EXCEPT !.written = Append(@, GetYawCommand), !.pc = "await"]
    /\ UNCHANGED <<pc, trainerVars, envVars, exitVars, rf, loop, aruco, servo>>

\* lines 127-136: one response read by get_yaw and what follows it: the
\* re-send, the return of the yaw, or the except branch, which logs and
\* leaves the function without a return value
MagnetGetYawResponse ==
    /\ magnet.pc = "await" /\ magnet.cmd = "get_yaw"
    /\ \E raw \in RawLines :
         LET resp == get_response(raw)
             seen == [magnet EXCEPT !.last = raw,
                        !.mismatched = IF Decodable(raw) /\ ~Tagged(raw, "YAW")
                                       THEN @ + 1 ELSE @,
                        !.tagged = IF Decodable(raw) /\ Tagged(raw, "YAW")
                                   THEN @ + 1 ELSE @]
         IN  IF resp.raised
             THEN magnet' = [seen EXCEPT !.result = None, !.pc = "returned"]
             ELSE IF TagMismatch(resp.fields, "YAW")
             THEN /\ Len(magnet.written) < MaxSends
                  /\ magnet' = [seen EXCEPT !.written = Append(@, GetYawCommand)]
             ELSE IF Len(resp.fields) < 2
             THEN magnet' = [seen EXCEPT !.pc = "raised"]
             ELSE IF float(resp.fields[2]).ok
             THEN magnet' = [seen EXCEPT !.result = <<float(resp.fields[2]).value>>,
                                         !.pc = "returned"]
             ELSE magnet' = [seen EXCEPT !.result = None, !.pc = "returned"]
    /\ UNCHANGED <<pc, trainerVars, envVars, exitVars, rf, loop, aruco, servo>>

\* line 142: the first serial.write of offset(aruco_yaw)
MagnetOffsetSend ==
    /\ magnet.pc = "call" /\ magnet.cmd = "offset"
    /\ magnet' = [magnet EXCEPT !.written = Append(@, OffsetCommand("90.0")),
                                !.pc = "await"]
    /\ UNCHANGED <<pc, trainerVars, envVars, exitVars, rf, loop, aruco, servo>>

\* lines 143-152: one response read by offset and what follows it
MagnetOffsetResponse ==
    /\ magnet.pc = "await" /\ magnet.cmd = "offset"
    /\ \E raw \in RawLines :
         LET resp == get_response(raw)
             seen == [magnet EXCEPT !.last = raw,
                        !.mismatched = IF Decodable(raw) /\ ~Tagged(raw, "OFFSET")
                                       THEN @ + 1 ELSE @,
                        !.tagged = IF Decodable(raw) /\ Tagged(raw, "OFFSET")
                                   THEN @ + 1 ELSE @]
         IN  IF resp.raised
             THEN magnet' = [seen EXCEPT !.result = None, !.pc = "returned"]
             ELSE IF TagMismatch(resp.fields, "OFFSET")
             THEN /\ Len(magnet.written) < MaxSends
                  /\ magnet' = [seen EXCEPT !.written = Append(@, OffsetCommand("90.0"))]
             ELSE IF Len(resp.fields) < 2
             THEN magnet' = [seen EXCEPT !.pc = "raised"]
             ELSE magnet' = [seen EXCEPT !.result = <<bool(resp.fields[2])>>,
                                         !.pc = "returned"]
    /\ UNCHANGED <<pc, trainerVars, envVars, exitVars, rf, loop, aruco, servo>>

NextMagnet ==
    \/ MagnetGetYawSend
    \/ MagnetGetYawResponse
    \/ MagnetOffsetSend
    \/ MagnetOffsetResponse

SpecMagnet == InitMagnet /\ [][NextMagnet]_vars

(***************************************************************************)
(* Servo, Servo.py 9-83, and ServoObject.reset, Objects.py 72-75.  The     *)
(* servo's control table is a memory of bytes; a multi-byte value is       *)
(* stored low byte first.                                                  *)
(***************************************************************************)
\* largest step a servo of the model is constructed with
MaxStep == 2
\* largest LED colour a servo of the model is constructed with
MaxLed == 1

\* Objects.py line 50: torque_limit and speed_limit passed by ServoObject
TorqueLimit == 200
SpeedLimit == 200

\* Servo.py 10-19
addresses(name) ==
    CASE name = "torque_enable" -> 24
      [] name = "torque_limit" -> 35
      [] name = "led" -> 25
      [] name = "goal_position" -> 30
      [] name = "present_position" -> 37
      [] name = "present_velocity" -> 38
      [] name = "moving_speed" -> 32
      [] name = "moving" -> 49

\* the bytes of the control table the write operations can touch
RegisterBytes == {24, 25, 30, 31, 32, 33, 35, 36}

\* dxl_comm_result = COMM_SUCCESS and dxl_error = 0; dxl_comm_result is
\* something else; dxl_error is not 0
Outcomes == {"ok", "comm", "error"}

\* what a write instruction of the given width does to the control table
WriteBytes(mem, address, width, value) ==
    [a \in DOMAIN mem |->
        IF a = address THEN value % 256
        ELSE IF width = 2 /\ a = address + 1 THEN (value \div 256) % 256
        ELSE mem[a]]

\* packet_handler.write1ByteTxRx / write2ByteTxRx: a failed transaction leaves
\* the control table as it was
write1ByteTxRx(mem, address, value, outcome) ==
    IF outcome = "ok" THEN WriteBytes(mem, address, 1, value) ELSE mem
write2ByteTxRx(mem, address, value, outcome) ==
    IF outcome = "ok" THEN WriteBytes(mem, address, 2, value) ELSE mem

\* Servo.py 77-83: one of three texts is printed; nothing is raised
process_result(outcome) ==
    [raised |-> FALSE,
     printed |-> IF outcome = "comm" THEN "getTxRxResult"
                 ELSE IF outcome = "error" THEN "getRxPacketError"
                 ELSE "Dynamixel#motor_id message"]

verify_step_ExcludesMax(min, max, step) == min <= step /\ step < max
verify_step_OneBeyond(min, max, step) == min <= step /\ step <= max + 1

\* Servo.py 74-75
verify_step(min, max, step) == min <= step /\ step <= max

\* random.randint(a, b): both ends included
randint(a, b) == a..b

\* one transaction as the bus saw it
Tx(name, width, value) == [address |-> addresses(name), width |-> width, value |-> value]

\* the servo after one operation: mem the control table, prev the table
\* before the operation, txs its bus transactions, failed whether one failed,
\* raised the exception it left with, requested the step asked of move
AfterOp(op, mem, txs, failed, raised, requested) ==
    [servo EXCEPT !.op = op, !.mem = mem, !.prev = servo.mem, !.txs = txs,
                  !.failed = failed, !.raised = raised, !.requested = requested]

Raised(result) == IF result.raised THEN "CommError" ELSE "none"

\* Servo.__init__, Servo.py 21-32: the servo as constructed, no operation yet
InitServo ==
    /\ TrainerAtRest
    /\ aruco = ArucoIdle
    /\ magnet = MagnetIdle
    /\ \E min \in 0..1, max \in 1..MaxStep, colour \in 1..MaxLed,
          torque \in 0..1, led \in 0..MaxLed :
         /\ min < max
         /\ servo = [pc |-> "ready", min |-> min, max |-> max, LED_colour |-> colour,
                     mem |-> [a \in RegisterBytes |->
                                IF a = 24 THEN torque ELSE IF a = 25 THEN led ELSE 0],
                     prev |-> [a \in RegisterBytes |->
                                IF a = 24 THEN torque ELSE IF a = 25 THEN led ELSE 0],
                     op |-> "none", txs |-> <<>>, failed |-> FALSE,
                     raised |-> "none", requested |-> None]

\* Servo.py 35-37
ServoTurnOnLED ==
    /\ servo.pc = "ready"
    /\ \E outcome \in Outcomes :
         servo' = AfterOp("turn_on_LED",
                          write1ByteTxRx(servo.mem, addresses("led"), servo.LED_colour, outcome),
                          <<Tx("led", 1, servo.LED_colour)>>, outcome # "ok",
                          Raised(process_result(outcome)), None)
    /\ UNCHANGED <<pc, trainerVars, envVars, exitVars, rf, loop, aruco, magnet>>

\* Servo.py 40-42
ServoLimitTorque ==
    /\ servo.pc = "ready"
    /\ \E outcome \in Outcomes :
         servo' = AfterOp("limit_torque",
                          write2ByteTxRx(servo.mem, addresses("torque_limit"), TorqueLimit, outcome),
                          <<Tx("torque_limit", 2, TorqueLimit)>>, outcome # "ok",
                          Raised(process_result(outcome)), None)
    /\ UNCHANGED <<pc, trainerVars, envVars, exitVars, rf, loop, aruco, magnet>>

\* Servo.py 45-47: the one-byte register torque_enable is written with
\* write2ByteTxRx
ServoEnableTorque ==
    /\ servo.pc = "ready"
    /\ \E outcome \in Outcomes :
         servo' = AfterOp("enable_torque",
                          write2ByteTxRx(servo.mem, addresses("torque_enable"), 1, outcome),
                          <<Tx("torque_enable", 2, 1)>>, outcome # "ok",
                          Raised(process_result(outcome)), None)
    /\ UNCHANGED <<pc, trainerVars, envVars, exitVars, rf, loop, aruco, magnet>>

\* Servo.py 50-52
ServoDisableTorque ==
    /\ servo.pc = "ready"
    /\ \E outcome \in Outcomes :
         servo' = AfterOp("disable_torque",
                          write1ByteTxRx(servo.mem, addresses("torque_enable"), 0, outcome),
                          <<Tx("torque_enable", 1, 0)>>, outcome # "ok",
                          Raised(process_result(outcome)), None)
    /\ UNCHANGED <<pc, trainerVars, envVars, exitVars, rf, loop, aruco, magnet>>

\* Servo.py 55-57
ServoLimitSpeed ==
    /\ servo.pc = "ready"
    /\ \E outcome \in Outcomes :
         servo' = AfterOp("limit_speed",
                          write2ByteTxRx(servo.mem, addresses("moving_speed"), SpeedLimit, outcome),
                          <<Tx("moving_speed", 2, SpeedLimit)>>, outcome # "ok",
                          Raised(process_result(outcome)), None)
    /\ UNCHANGED <<pc, trainerVars, envVars, exitVars, rf, loop, aruco, magnet>>

\* Servo.move as the specification describes it (the class in Servo.py has no
\* move; ServoObject calls it at Objects.py 74): the step is validated with
\* verify_step first and rejected with OutOfRangeError before any
\* transmission; otherwise goal_position is written, and a failed transaction
\* is reported as CommError
move(s, step, outcome) ==
    IF ~verify_step(s.min, s.max, step)
    THEN [mem |-> s.mem, txs |-> <<>>, failed |-> FALSE, raised |-> "OutOfRangeError"]
    ELSE [mem |-> write2ByteTxRx(s.mem, addresses("goal_position"), step, outcome),
          txs |-> <<Tx("goal_position", 2, step)>>,
          failed |-> outcome # "ok",
          raised |-> IF outcome # "ok" THEN "CommError" ELSE "none"]

\* a caller asks the servo to move to a step, in range or one outside it
ServoMove ==
    /\ servo.pc = "ready"
    /\ \E step \in (servo.min - 1)..(servo.max + 1), outcome \in Outcomes :
         LET m == move(servo, step, outcome)
         IN  servo' = AfterOp("move", m.mem, m.txs, m.failed, m.raised, <<step>>)
    /\ UNCHANGED <<pc, trainerVars, envVars, exitVars, rf, loop, aruco, magnet>>

\* Objects.py 72-75: ServoObject.reset; an exception of move leaves reset
\* before disable_torque
ServoObjectReset ==
    /\ servo.pc = "ready"
    /\ \E reset_home_position \in randint(servo.min, servo.max), outcome \in Outcomes :
         LET m == move(servo, reset_home_position, outcome)
         IN  IF m.raised # "none"
             THEN servo' = AfterOp("reset", m.mem, m.txs, m.failed, m.raised,
                                   <<reset_home_position>>)
             ELSE \E outcome2 \in Outcomes :
                  servo' = AfterOp("reset",
                                   write1ByteTxRx(m.mem, addresses("torque_enable"), 0, outcome2),
                                   Append(m.txs, Tx("torque_enable", 1, 0)),
                                   outcome2 # "ok",
                                   Raised(process_result(outcome2)),
                                   <<reset_home_position>>)
    /\ UNCHANGED <<pc, trainerVars, envVars, exitVars, rf, loop, aruco, magnet>>

\* Objects.py 17-27: the wrapper of exception_handler. Only EnvironmentError
\* is caught, which in Objects.py is Python's built-in alias of OSError; the
\* handler then reads error.gripper, which such an error does not have, so
\* AttributeError leaves the wrapper. Every other exception passes unchanged.
exception_handler(raised) ==
    IF raised = "EnvironmentError" THEN "AttributeError" ELSE raised

ServoObjectResetTargetServo_NoDisable ==
    /\ servo.pc = "ready"
    /\ \E home_pos \in (servo.min - 1)..(servo.max + 1),
          outcome1 \in Outcomes, outcome2 \in Outcomes :
         LET enabled == write2ByteTxRx(servo.mem, addresses("torque_enable"), 1, outcome1)
             raised1 == Raised(process_result(outcome1))
             m == move([servo EXCEPT !.mem = enabled], home_pos, outcome2)
         IN  servo' = AfterOp("reset_target_servo", m.mem,
                              <<Tx("torque_enable", 2, 1)>> \o m.txs,
                              outcome1 # "ok" \/ m.failed,
                              exception_handler(m.raised), <<home_pos>>)
    /\ UNCHANGED <<pc, trainerVars, envVars, exitVars, rf, loop, aruco, magnet>>

\* Objects.py 77-82: ServoObject.reset_target_servo under exception_handler:
\* enable_torque, move(home_pos), disable_torque; an exception of one call
\* skips the calls after it
ServoObjectResetTargetServo ==
    /\ servo.pc = "ready"
    /\ \E home_pos \in (servo.min - 1)..(servo.max + 1),
          outcome1 \in Outcomes, outcome2 \in Outcomes :
         LET enabled == write2ByteTxRx(servo.mem, addresses("torque_enable"), 1, outcome1)
             raised1 == Raised(process_result(outcome1))
             m == move([servo EXCEPT !.mem = enabled], home_pos, outcome2)
         IN  IF raised1 # "none"
             THEN servo' = AfterOp("reset_target_servo", enabled,
                                   <<Tx("torque_enable", 2, 1)>>, outcome1 # "ok",
                                   exception_handler(raised1), <<home_pos>>)
             ELSE IF m.raised # "none"
             THEN servo' = AfterOp("reset_target_servo", m.mem,
                                   <<Tx("torque_enable", 2, 1)>> \o m.txs,
                                   outcome1 # "ok" \/ m.failed,
                                   exception_handler(m.raised), <<home_pos>>)
             ELSE \E outcome3 \in Outcomes :
                  servo' = AfterOp("reset_target_servo",
                                   write1ByteTxRx(m.mem, addresses("torque_enable"), 0, outcome3),
                                   <<Tx("torque_enable", 2, 1)>> \o m.txs
                                       \o <<Tx("torque_enable", 1, 0)>>,
                                   outcome1 # "ok" \/ outcome3 # "ok",
                                   exception_handler(Raised(process_result(outcome3))),
                                   <<home_pos>>)
    /\ UNCHANGED <<pc, trainerVars, envVars, exitVars, rf, loop, aruco, magnet>>

NextServo ==
    \/ ServoTurnOnLED
    \/ ServoLimitTorque
    \/ ServoEnableTorque
    \/ ServoDisableTorque
    \/ ServoLimitSpeed
    \/ ServoMove
    \/ ServoObjectReset
    \/ ServoObjectResetTargetServo

SpecServo == InitServo /\ [][NextServo]_vars

(***************************************************************************)
(* ServoObject.get_yaw, Objects.py 65-70.  An angle is an exact fraction   *)
(* num / den of a degree count.                                            *)
(***************************************************************************)
\* Objects.py 40-41: the step range ServoObject gives its servo
ServoObjectMin == 0
ServoObjectMax == 4095

\* Servo.step_to_angle as the specification gives it (the class in Servo.py
\* has no step_to_angle): angle = step / (max - min) * 360
step_to_angle(min, max, step) == [num |-> step * FullCircle, den |-> max - min]

\* Objects.py 67-70: a negative angle is wrapped by adding 360; nothing else
\* is changed
ServoObject_get_yaw(min, max, current_position) ==
    LET yaw == step_to_angle(min, max, current_position)
    IN  IF yaw.num < 0 THEN [yaw EXCEPT !.num = @ + FullCircle * yaw.den] ELSE yaw

\* get_yaw is called while the servo's position register holds some step of
\* its range
InitYaw ==
    /\ TrainerAtRest
    /\ aruco = ArucoIdle
    /\ magnet = MagnetIdle
    /\ \E step \in ServoObjectMin..ServoObjectMax :
         servo = [pc |-> "get_yaw", min |-> ServoObjectMin, max |-> ServoObjectMax,
                  current_position |-> step, yaw |-> [num |-> 0, den |-> 1]]

\* Objects.py 65-70
ServoObjectGetYaw ==
    /\ servo.pc = "get_yaw"
    /\ servo' = [servo EXCEPT !.yaw = ServoObject_get_yaw(servo.min, servo.max,
                                                          servo.current_position),
                              !.pc = "yaw_returned"]
    /\ UNCHANGED <<pc, trainerVars, envVars, exitVars, rf, loop, aruco, magnet>>

NextYaw == ServoObjectGetYaw

SpecYaw == InitYaw /\ [][NextYaw]_vars

(***************************************************************************)
(* GripperTrainer.train and evaluation_loop, gripper_trainer.py 147-359,   *)
(* followed through their loops with what environment_step and            *)
(* environment_reset give back as inputs: a step returns (done, truncated) *)
(* or ends the process, a reset returns or ends the process.               *)
(***************************************************************************)
\* largest number_eval_episodes of the model
MaxEvalEpisodes == 1
\* largest step_time_period and largest processing time, in ticks
MaxPeriod == 1
MaxProcessTime == 2

\* number_steps_per_evaluation, number_steps_per_train_policy and G of the model
Frequencies == {1, 2}
PolicyUpdatesPerStep == {1, 2}

dynamic_sleep_Unguarded(step_time_period, process_time) ==
    [slept |-> step_time_period - process_time,
     raised |-> step_time_period - process_time < 0]

\* lines 351-359: dynamic_sleep, for the process_time measured at line 352;
\* slept is the argument of time.sleep, 0 when it is not called
dynamic_sleep(step_time_period, process_time) ==
    LET delay == step_time_period - process_time
    IN  IF delay > 0 THEN [slept |-> delay, raised |-> FALSE]
        ELSE [slept |-> 0, raised |-> FALSE]

NoSleep == [after |-> "none", called |-> FALSE, process_time |-> 0, slept |-> 0,
            raised |-> FALSE]

\* lines 203-204 and 344-345: the pacing at the end of an iteration
Pace(l, which, process_time) ==
    IF l.action_type = "velocity"
    THEN [after |-> which, called |-> TRUE, process_time |-> process_time,
          slept |-> dynamic_sleep(l.step_time_period, process_time).slept,
          raised |-> dynamic_sleep(l.step_time_period, process_time).raised]
    ELSE [NoSleep EXCEPT !.after = which]

ActionMode_Inclusive(step_counter, max_steps_exploration) ==
    IF step_counter <= max_steps_exploration THEN "explore" ELSE "policy"

\* lines 261-279: sample_action or select_action_from_policy
ActionMode(step_counter, max_steps_exploration) ==
    IF step_counter < max_steps_exploration THEN "explore" ELSE "policy"

\* lines 303-306: whether train_policy is called in this iteration
TrainsPolicy(step_counter, max_steps_exploration, number_steps_per_train_policy) ==
    /\ step_counter >= max_steps_exploration
    /\ step_counter % number_steps_per_train_policy = 0

\* observations are told apart by where they come from: environment_reset
\* returns ResetObservation, the environment_step of iteration n returns n + 1
ResetObservation == 0
\* the extrinsic reward a step that was not recovered returns in the model
\* (a recovered one returns 0), and what agent.get_intrinsic_reward returns
Rewards == {1}
IntrinsicSample == 10

\* lines 287-291: intrinsic_reward
intrinsic_reward(intrinsic_on, step_counter, max_steps_exploration) ==
    IF intrinsic_on /\ step_counter > max_steps_exploration THEN IntrinsicSample ELSE 0

\* line 295: what memory.add stores; extrinsic, recovered and afterReset (an
\* environment_reset of train returned since the transition before) are kept
\* beside it
Transition(n, s, total_reward, next_state, done, extrinsic, recovered, afterReset) ==
    [n |-> n, state |-> s, reward |-> total_reward, next_state |-> next_state,
     done |-> done, extrinsic |-> extrinsic, recovered |-> recovered,
     afterReset |-> afterReset]
NoTransition == Transition(-1, ResetObservation, 0, ResetObservation, FALSE, 0, FALSE, FALSE)

\* train is entered (lines 214-253) with some configuration; memory holds the
\* steps whose transition was added, added the transition of the last
\* memory.add, iteration what the running iteration of train has done
\* so far, modes the action mode of every training step, updateSteps the
\* steps at which train_policy was called, episodeOver whether the last
\* environment_step ended the episode and no environment_reset has returned
\* since, evalStepped whether the last evaluation issued a step, pending the
\* evaluation thresholds passed since the last evaluation was entered,
\* evalsAtEnd the evaluations entered since the last training step
InitLoop ==
    /\ pc = "loops"
    /\ resetCaller = "start" /\ resetDepth = 0 /\ resetRecoveries = 0
    /\ stepRecoveries = 0 /\ total_step_counter = 0 /\ episode_num = 0
    /\ state = NotFoundYaw /\ ret = NoRet /\ target_angle = 0 /\ valveYaw = 0
    /\ start_marker_pose = NoSample /\ final_marker_pose = NoSample
    /\ moved = FALSE /\ events = <<>>
    /\ gripper_closed = FALSE /\ models_saved = FALSE
    /\ rf = RfIdle /\ aruco = ArucoIdle /\ magnet = MagnetIdle /\ servo = ServoIdle
    /\ \E e \in 0..MaxStepsTraining, fe \in Frequencies, ft \in Frequencies,
          g \in PolicyUpdatesPerStep, ne \in 0..MaxEvalEpisodes,
          a \in {"velocity", "position"}, p \in 1..MaxPeriod, io \in BOOLEAN :
         loop = [pc |-> "train_start", intrinsic_on |-> io,
                 state |-> ResetObservation, next_state |-> ResetObservation,
                 reward_extrinsic |-> 0, recovered |-> FALSE, resetSince |-> FALSE,
                 iteration |-> <<>>, pending |-> 0, evalsAtEnd |-> 0,
                 max_steps_exploration |-> e, number_steps_per_evaluation |-> fe,
                 number_steps_per_train_policy |-> ft, G |-> g,
                 number_eval_episodes |-> ne, action_type |-> a,
                 step_time_period |-> p,
                 total_step_counter |-> 0, evaluate |-> FALSE,
                 done |-> FALSE, truncated |-> FALSE,
                 eval_episode_counter |-> 0, eval_done |-> FALSE,
                 eval_truncated |-> FALSE,
                 memory |-> <<>>, added |-> NoTransition, policy_updates |-> 0,
                 modes |-> <<>>, updateSteps |-> {}, episodeOver |-> FALSE,
                 evalStepped |-> FALSE, paced |-> NoSleep]

LoopOthers == <<pc, trainerVars, envVars, exitVars, rf, deviceVars>>

\* line 255: state = self.environment_reset()
LoopTrainStart ==
    /\ loop.pc = "train_start"
    /\ \E returns \in BOOLEAN :
         loop' = IF returns
                 THEN [loop EXCEPT !.pc = "train_for", !.episodeOver = FALSE,
                                   !.state = ResetObservation, !.resetSince = TRUE]
                 ELSE [loop EXCEPT !.pc = "exited"]
    /\ UNCHANGED LoopOthers

\* lines 258-283: the loop test, the choice of the action and the call of
\* environment_step
LoopTrainSelect ==
    /\ loop.pc = "train_for"
    /\ loop' = IF loop.total_step_counter < MaxStepsTraining
               THEN [loop EXCEPT !.pc = "train_step",
                                 !.modes = Append(@, ActionMode(loop.total_step_counter,
                                                                loop.max_steps_exploration)),
                                 !.iteration = <<>>, !.evalsAtEnd = 0,
                                 !.paced = NoSleep]
               ELSE [loop EXCEPT !.pc = "train_done", !.paced = NoSleep]
    /\ UNCHANGED LoopOthers

\* line 281 with environment_step, lines 130-145: the step returns what
\* Environment.step gave, or after a recovery (state, 0, False, False), or it
\* ends the process
LoopTrainStep ==
    /\ loop.pc = "train_step"
    /\ \E returns \in BOOLEAN, recovered \in BOOLEAN, done \in BOOLEAN,
          truncated \in BOOLEAN, reward \in Rewards \cup {0} :
         /\ recovered => (returns /\ ~done /\ ~truncated /\ reward = 0)
         /\ ~returns => (~done /\ ~truncated /\ reward = 0)
         /\ (returns /\ ~recovered) => reward \in Rewards
         /\ loop' = IF returns
                    THEN [loop EXCEPT !.pc = "train_after", !.done = done,
                                      !.truncated = truncated,
                                      !.next_state = loop.total_step_counter + 1,
                                      !.reward_extrinsic = reward,
                                      !.recovered = recovered,
                                      !.iteration = <<"environment_step">>,
                                      !.episodeOver = done \/ truncated]
                    ELSE [loop EXCEPT !.pc = "exited"]
    /\ UNCHANGED LoopOthers

LoopTrainAfter_DropsRecovered ==
    /\ loop.pc = "train_after"
    /\ LET n == loop.total_step_counter
           trains == TrainsPolicy(n, loop.max_steps_exploration,
                                  loop.number_steps_per_train_policy)
           threshold == (n + 1) % loop.number_steps_per_evaluation = 0
           evaluate == loop.evaluate \/ threshold
           total_reward == loop.reward_extrinsic
                             + intrinsic_reward(loop.intrinsic_on, n,
                                                loop.max_steps_exploration)
       IN  loop' = [loop EXCEPT
                      !.memory = IF loop.recovered THEN @ ELSE Append(@, n),
                      !.added = IF loop.recovered THEN @
                                ELSE Transition(n, loop.state, total_reward,
                                                loop.next_state, loop.done,
                                                loop.reward_extrinsic, loop.recovered,
                                                loop.resetSince),
                      !.state = loop.next_state,
                      !.resetSince = FALSE,
                      !.iteration = @ \o (IF loop.recovered THEN <<>> ELSE <<"memory.add">>)
                                      \o (IF trains THEN [k \in 1..loop.G |-> "train_policy"]
                                          ELSE <<>>),
                      !.policy_updates = IF trains THEN @ + loop.G ELSE @,
                      !.updateSteps = IF trains /\ loop.G > 0 THEN @ \cup {n} ELSE @,
                      !.evaluate = evaluate,
                      !.pending = IF threshold THEN @ + 1 ELSE @,
                      !.pc = IF (loop.done \/ loop.truncated) /\ evaluate
                             THEN "eval_start" ELSE "train_end"]
    /\ UNCHANGED LoopOthers

\* lines 285-334: the intrinsic reward, memory.add, state = next_state, the
\* policy updates, the evaluation flag, and at the end of an episode the entry
\* into evaluation_loop when it is due
LoopTrainAfter ==
    /\ loop.pc = "train_after"
    /\ LET n == loop.total_step_counter
           trains == TrainsPolicy(n, loop.max_steps_exploration,
                                  loop.number_steps_per_train_policy)
           threshold == (n + 1) % loop.number_steps_per_evaluation = 0
           evaluate == loop.evaluate \/ threshold
           total_reward == loop.reward_extrinsic
                             + intrinsic_reward(loop.intrinsic_on, n,
                                                loop.max_steps_exploration)
       IN  loop' = [loop EXCEPT
                      !.memory = Append(@, n),
                      !.added = Transition(n, loop.state, total_reward, loop.next_state,
                                           loop.done, loop.reward_extrinsic,
                                           loop.recovered, loop.resetSince),
                      !.state = loop.next_state,
                      !.resetSince = FALSE,
                      !.iteration = @ \o <<"memory.add">>
                                      \o (IF trains THEN [k \in 1..loop.G |-> "train_policy"]
                                          ELSE <<>>),
                      !.policy_updates = IF trains THEN @ + loop.G ELSE @,
                      !.updateSteps = IF trains /\ loop.G > 0 THEN @ \cup {n} ELSE @,
                      !.evaluate = evaluate,
                      !.pending = IF threshold THEN @ + 1 ELSE @,
                      !.pc = IF (loop.done \/ loop.truncated) /\ evaluate
                             THEN "eval_start" ELSE "train_end"]
    /\ UNCHANGED LoopOthers

LoopTrainEnd_SkipsReset ==
    /\ loop.pc = "train_end"
    /\ \E process_time \in 0..MaxProcessTime :
         loop' = [loop EXCEPT !.pc = "train_for",
                              !.total_step_counter = @ + 1,
                              !.paced = Pace(loop, "train", process_time)]
    /\ UNCHANGED LoopOthers

\* lines 335-345: at the end of an episode environment_reset, which returns or
\* ends the process; then the pacing, and the next iteration
LoopTrainEnd ==
    /\ loop.pc = "train_end"
    /\ \E returns \in BOOLEAN, process_time \in 0..MaxProcessTime :
         loop' = IF loop.done \/ loop.truncated
                 THEN IF returns
                      THEN [loop EXCEPT !.pc = "train_for", !.episodeOver = FALSE,
                                        !.state = ResetObservation, !.resetSince = TRUE,
                                        !.total_step_counter = @ + 1,
                                        !.paced = Pace(loop, "train", process_time)]
                      ELSE [loop EXCEPT !.pc = "exited"]
                 ELSE [loop EXCEPT !.pc = "train_for",
                                   !.total_step_counter = @ + 1,
                                   !.paced = Pace(loop, "train", process_time)]
    /\ UNCHANGED LoopOthers

\* lines 158-163: evaluation_loop is entered and resets the environment
LoopEvalStart ==
    /\ loop.pc = "eval_start"
    /\ \E returns \in BOOLEAN :
         loop' = IF returns
                 THEN [loop EXCEPT !.pc = "eval_for", !.episodeOver = FALSE,
                                   !.eval_episode_counter = 0, !.evalStepped = FALSE,
                                   !.evalsAtEnd = @ + 1, !.pending = 0]
                 ELSE [loop EXCEPT !.pc = "exited"]
    /\ UNCHANGED LoopOthers

LoopEvalFor_KeepsEvaluate ==
    /\ loop.pc = "eval_for"
    /\ loop' = IF loop.eval_episode_counter < loop.number_eval_episodes
               THEN [loop EXCEPT !.pc = "eval_while", !.eval_done = FALSE,
                                 !.eval_truncated = FALSE]
               ELSE [loop EXCEPT !.pc = "train_end"]
    /\ UNCHANGED LoopOthers

\* lines 165-170 and 206: the next evaluation episode, or the return to train
\* (line 332: evaluate = False)
LoopEvalFor ==
    /\ loop.pc = "eval_for"
    /\ loop' = IF loop.eval_episode_counter < loop.number_eval_episodes
               THEN [loop EXCEPT !.pc = "eval_while", !.eval_done = FALSE,
                                 !.eval_truncated = FALSE]
               ELSE [loop EXCEPT !.pc = "train_end", !.evaluate = FALSE]
    /\ UNCHANGED LoopOthers

\* lines 173-179: the while test, the policy's action and the call of
\* environment_step
LoopEvalSelect ==
    /\ loop.pc = "eval_while"
    /\ loop' = IF ~loop.eval_done /\ ~loop.eval_truncated
               THEN [loop EXCEPT !.pc = "eval_step", !.paced = NoSleep,
                                 !.evalStepped = TRUE]
               ELSE [loop EXCEPT !.pc = "eval_for", !.paced = NoSleep,
                                 !.eval_episode_counter = @ + 1]
    /\ UNCHANGED LoopOthers

\* line 179: environment_step returns, or ends the process
LoopEvalStep ==
    /\ loop.pc = "eval_step"
    /\ \E returns \in BOOLEAN, done \in BOOLEAN, truncated \in BOOLEAN :
         loop' = IF returns
                 THEN [loop EXCEPT !.pc = "eval_after", !.eval_done = done,
                                   !.eval_truncated = truncated,
                                   !.episodeOver = done \/ truncated]
                 ELSE [loop EXCEPT !.pc = "exited"]
    /\ UNCHANGED LoopOthers

LoopEvalAfter_StoresTransition ==
    /\ loop.pc = "eval_after"
    /\ \E returns \in BOOLEAN, process_time \in 0..MaxProcessTime :
         loop' = IF (loop.eval_done \/ loop.eval_truncated) /\ ~returns
                 THEN [loop EXCEPT !.pc = "exited"]
                 ELSE [loop EXCEPT !.pc = "eval_while",
                                   !.memory = Append(@, loop.total_step_counter),
                                   !.episodeOver = IF loop.eval_done \/ loop.eval_truncated
                                                   THEN FALSE ELSE @,
                                   !.paced = Pace(loop, "eval", process_time)]
    /\ UNCHANGED LoopOthers

\* lines 181-204: the logs, at the end of an episode environment_reset, which
\* returns or ends the process, and the pacing
LoopEvalAfter ==
    /\ loop.pc = "eval_after"
    /\ \E returns \in BOOLEAN, process_time \in 0..MaxProcessTime :
         loop' = IF (loop.eval_done \/ loop.eval_truncated) /\ ~returns
                 THEN [loop EXCEPT !.pc = "exited"]
                 ELSE [loop EXCEPT !.pc = "eval_while",
                                   !.episodeOver = IF loop.eval_done \/ loop.eval_truncated
                                                   THEN FALSE ELSE @,
                                   !.paced = Pace(loop, "eval", process_time)]
    /\ UNCHANGED LoopOthers

NextLoop ==
    \/ LoopTrainStart
    \/ LoopTrainSelect
    \/ LoopTrainStep
    \/ LoopTrainAfter
    \/ LoopTrainEnd
    \/ LoopEvalStart
    \/ LoopEvalFor
    \/ LoopEvalSelect
    \/ LoopEvalStep
    \/ LoopEvalAfter

SpecLoop == InitLoop /\ [][NextLoop]_vars

(***************************************************************************)
(* Environment.get_marker_pose, gripper_environment.py 80-95.  The record  *)
(* aruco holds the call: marker_poses is the dictionary the detector gave  *)
(* for the last frame, a function from the detected marker ids to poses.   *)
(***************************************************************************)
\* line 85: detect_attempts < 4
MaxDetectAttempts == 4
\* the markers a frame can show; the trainer asks for marker 0 (lines 101, 105)
MarkerIds == {0, 1}
\* {} of line 82
NoMarkers == <<>>
\* what aruco_detector.get_marker_poses can return for one frame
Detections == UNION {[ids -> WorldYaws] : ids \in SUBSET MarkerIds}

MarkerPoseContinue_FiveFrames(marker_poses, detect_attempts) ==
    DOMAIN marker_poses = {} /\ detect_attempts <= MaxDetectAttempts

\* line 85: while len(marker_poses) == 0 and detect_attempts < 4
MarkerPoseContinue(marker_poses, detect_attempts) ==
    DOMAIN marker_poses = {} /\ detect_attempts < MaxDetectAttempts

\* lines 80-83, the call entered: frames counts camera.get_frame() calls,
\* firstAnyAt is the first frame in which any marker was detected (0: none
\* yet) and lastFrame what the detector gave for the frame acquired last
InitMarker ==
    /\ TrainerAtRest
    /\ magnet = MagnetIdle
    /\ servo = ServoIdle
    /\ \E id \in MarkerIds :
         aruco = [pc |-> "pose_loop", marker_id |-> id, marker_poses |-> NoMarkers,
                  detect_attempts |-> 0, frames |-> 0, firstAnyAt |-> 0,
                  lastFrame |-> NoMarkers, result |-> None]

\* lines 85-89: one iteration of the while loop
GetMarkerPoseFrame ==
    /\ aruco.pc = "pose_loop"
    /\ MarkerPoseContinue(aruco.marker_poses, aruco.detect_attempts)
    /\ \E detected \in Detections :
         aruco' = [aruco EXCEPT !.marker_poses = detected,
                                !.detect_attempts = @ + 1,
                                !.frames = @ + 1,
                                !.lastFrame = detected,
                                !.firstAnyAt = IF @ = 0 /\ DOMAIN detected # {}
                                               THEN aruco.frames + 1 ELSE @]
    /\ UNCHANGED <<pc, trainerVars, envVars, exitVars, rf, loop, magnet, servo>>

\* lines 91-95: the loop condition is false; the requested marker's pose, or
\* None
GetMarkerPoseReturn ==
    /\ aruco.pc = "pose_loop"
    /\ ~MarkerPoseContinue(aruco.marker_poses, aruco.detect_attempts)
    /\ aruco' = [aruco EXCEPT !.result = IF aruco.marker_id \in DOMAIN aruco.marker_poses
                                         THEN <<aruco.marker_poses[aruco.marker_id]>>
                                         ELSE None,
                              !.pc = "pose_returned"]
    /\ UNCHANGED <<pc, trainerVars, envVars, exitVars, rf, loop, magnet, servo>>

NextMarker ==
    \/ GetMarkerPoseFrame
    \/ GetMarkerPoseReturn

SpecMarker == InitMarker /\ [][NextMarker]_vars

(***************************************************************************)
(* Properties.                                                             *)
(***************************************************************************)
Exited == {"exited_step", "exited_reset"}
StepOrder == <<"read_start", "move", "read_final", "reward">>
BothAvailable == rf.before # None /\ rf.after # None

\* C1: a fault of environment.step inside environment_step leads to exactly one
\* call of handle_gripper_error_home: none has been made when the except branch
\* is entered, exactly one when environment_step returns the recovered
\* observation or terminates the process, and never a second one.
C1_StepFaultRecoversOnce ==
    /\ stepRecoveries <= 1
    /\ (pc = "step_except" => stepRecoveries = 0)
    /\ (ret.recovered => stepRecoveries = 1)
    /\ (pc = "exited_step" => stepRecoveries = 1)
    /\ (ret.returned /\ ~ret.recovered => stepRecoveries = 0)

\* the process was terminated by a step fault whose single recovery failed
C1_Witness == pc = "exited_step" /\ stepRecoveries = 1 /\ events = <<"read_start", "move">>

\* C2: one call of environment_reset makes at most one recovery attempt before
\* it returns an observation or terminates the process.
C2_ResetRecoversOnce == resetRecoveries <= 1

\* C3: a step whose fault was recovered returns reward 0, done = false and
\* truncated = false, and the training loop goes on with the same episode: it
\* neither resets the environment nor counts a finished episode.
C3_RecoveredStepContinuesEpisode ==
    [][(pc = "train_record" /\ ret.recovered)
         => /\ ret.reward = 0 /\ ~ret.done /\ ~ret.truncated
            /\ pc' = "train_loop"
            /\ episode_num' = episode_num
            /\ target_angle' = target_angle]_vars

\* the loop is back at its head after a recovered step, in the same episode
C3_Witness == pc = "train_loop" /\ ret.recovered /\ stepRecoveries = 1 /\ episode_num = 0

C5_NonePoseZeroRewardDone ==
    (rf.applied /\ ~BothAvailable)
        => (~rf.out.raised /\ rf.out.done /\ rf.out.reward = 0)

\* C6: within Environment.step the events are, in this order, the pre-move pose
\* read, the move, the post-move pose read and the reward computation; the
\* reward is computed from a start pose read before the move and a final pose
\* read after it.
C6_StepOrder ==
    /\ Len(events) <= Len(StepOrder)
    /\ \A i \in 1..Len(events) : events[i] = StepOrder[i]
    /\ (ret.returned /\ ~ret.recovered)
         => /\ events = StepOrder
            /\ ~start_marker_pose.afterMove
            /\ final_marker_pose.afterMove
    /\ (pc = "train_record" /\ ~ret.recovered)
         => ret.reward = reward_function(target_angle, start_marker_pose.pose,
                                            final_marker_pose.pose).reward

\* a step has returned its reward after the four events
C6_Witness == pc = "train_record" /\ ret.returned /\ ~ret.recovered /\ events = StepOrder

\* the distance a reward function compares with the tolerance, in its own unit
PostMoveDistance ==
    IF rf.variant = "rotation" THEN Abs(rf.target[1] - rf.after[1])
    ELSE Dist(rf.target, rf.after)
ToleranceInUnit == IF rf.variant = "rotation" THEN rf.tol ELSE rf.tol * DistScale
BonusInUnit(b) == IF rf.variant = "rotation" THEN b ELSE b * DistScale

RotationProgress ==
    Abs(rf.target[1] - rf.before[1]) - Abs(rf.target[1] - rf.after[1])

CircularDistance(a, b) ==
    LET d == Abs(a - b) % FullCircle
    IN  IF d <= FullCircle - d THEN d ELSE FullCircle - d

\* C8: in the rotation task, with both poses available, terminated is true
\* exactly when the circular distance between target and post-move yaw is within
\* the tolerance.
C8_TerminatedIffCircularlyClose ==
    (rf.applied /\ rf.variant = "rotation" /\ BothAvailable)
        => (rf.out.done = (CircularDistance(rf.target[1], rf.after[1]) <= rf.tol))

\* C9 as stated: in every translation reward function, with both poses
\* available and the post-move distance above the tolerance, the reward is the
\* negative post-move distance and done is false.
C9_NegativeDistanceEverywhere ==
    (rf.applied /\ rf.variant # "rotation" /\ BothAvailable
       /\ PostMoveDistance > ToleranceInUnit)
        => (~rf.out.done /\ rf.out.reward = -PostMoveDistance)

\* C9 amended: with both poses available and the post-move distance above the
\* tolerance, done is false; TranslationEnvironment.reward_function gives the
\* negative post-move distance, TwoFingerTranslation._reward_function gives the
\* progress, the pre-move distance minus the post-move distance.
C9_TranslationRewardOutsideTolerance ==
    (rf.applied /\ rf.variant # "rotation" /\ BothAvailable
       /\ PostMoveDistance > ToleranceInUnit)
        => /\ ~rf.out.done /\ ~rf.out.raised
           /\ rf.variant = "translation" => rf.out.reward = -PostMoveDistance
           /\ rf.variant = "two_finger"
                => rf.out.reward = Dist(rf.target, rf.before) - PostMoveDistance

\* TranslationEnvironment.reward_function applied outside the tolerance, the
\* object having moved away from the goal it started on
C9_Witness ==
    /\ rf.applied /\ rf.variant = "translation" /\ rf.tol = 1
    /\ rf.target = <<0, 0>> /\ rf.before = <<0, 0>> /\ rf.after = <<2, 2>>
    /\ rf.out.reward = -28 /\ ~rf.out.done

\* C10: the truncated flag the training loop sees is false after every step,
\* and the loop ends an episode (calls environment_reset) only on done = true.
C10_NeverTruncated ==
    /\ ~ret.truncated
    /\ (pc = "reset_try" /\ resetCaller = "episode_end") => ret.done

\* an episode ended on done = true with truncated = false
C10_Witness ==
    /\ pc = "reset_try" /\ resetCaller = "episode_end"
    /\ ret.returned /\ ret.done /\ ~ret.truncated

\* C11: get_yaw with blindable = true and detection_attempts = N, the tracked
\* marker in no frame, acquires exactly N frames and then returns None, for
\* every N >= 0; it never acquires more than N frames.
C11_BlindableGivesUpAfterN ==
    (aruco.pc # "none" /\ aruco.blindable)
        => /\ aruco.frames <= aruco.detection_attempts
           /\ (aruco.pc = "returned" /\ aruco.firstSeenAt = 0)
                => (aruco.frames = aruco.detection_attempts /\ aruco.result = None)

\* a blindable call gave up after its 3 frames
C11_Witness ==
    /\ aruco.pc = "returned" /\ aruco.blindable /\ aruco.firstSeenAt = 0
    /\ aruco.detection_attempts = 3 /\ aruco.frames = 3 /\ aruco.result = None

\* C12: get_yaw with blindable = false never returns None: it returns only on
\* the first frame that holds the tracked marker, with that marker's yaw, and
\* acquires no frame after it; while no frame held the marker it is still in
\* its loop, whatever detection_attempts is.
C12_NotBlindableReturnsOnlyOnDetection ==
    (aruco.pc # "none" /\ ~aruco.blindable)
        => /\ (aruco.pc = "returned")
                => /\ aruco.result # None
                   /\ aruco.result = <<aruco.seenYaw>>
                   /\ aruco.firstSeenAt = aruco.frames
                   /\ aruco.frames >= 1
           /\ (aruco.firstSeenAt = 0) => (aruco.pc = "loop")
           /\ (aruco.pc = "loop") => (aruco.firstSeenAt = 0)

\* a call that is not blindable returned a yaw after more frames than
\* detection_attempts
C12_Witness ==
    /\ aruco.pc = "returned" /\ ~aruco.blindable
    /\ aruco.frames > aruco.detection_attempts /\ aruco.detection_attempts >= 1
    /\ aruco.result # None

\* C13: get_yaw writes the GET_YAW command once and once more for each
\* response that is not tagged "YAW", so the commands written are 1 plus the
\* mismatched responses read; it stops reading at the first response tagged
\* "YAW", and the response "YAW,173.5\n" makes it return 173.5.
C13_OneResendPerMismatch ==
    (magnet.pc \in {"await", "returned", "raised"} /\ magnet.cmd = "get_yaw")
        => /\ Len(magnet.written) = 1 + magnet.mismatched
           /\ \A i \in 1..Len(magnet.written) : magnet.written[i] = GetYawCommand
           /\ magnet.tagged <= 1
           /\ ((magnet.pc = "await") => (magnet.tagged = 0))
           /\ ((magnet.pc = "returned" /\ magnet.last = <<"YAW", ",", "173.5">>)
                 => magnet.result = <<1735>>)

\* after two mismatched responses and three commands, "YAW,173.5\n" was read
\* and 173.5 returned
C13_Witness ==
    /\ magnet.pc = "returned" /\ magnet.cmd = "get_yaw"
    /\ magnet.mismatched = 2 /\ Len(magnet.written) = 3
    /\ magnet.last = <<"YAW", ",", "173.5">> /\ magnet.result = <<1735>>

\* C14: get_yaw returns to its caller only with a numeric yaw, never with no
\* value: an undecodable or non-numeric response makes it retry.
C14_GetYawReturnsNumber ==
    (magnet.pc = "returned" /\ magnet.cmd = "get_yaw") => magnet.result # None

\* C15: get_yaw and offset raise nothing to their caller, whatever line is
\* read: undecodable bytes, a non-numeric payload, an empty line, a line with
\* the expected tag and no second field.
C15_NoExceptionEscapes == magnet.pc # "raised"

\* get_yaw read the line "YAW\n", the tag with no second field, and went on
C15_Witness ==
    /\ magnet.pc = "await" /\ magnet.cmd = "get_yaw"
    /\ magnet.last = <<"YAW">> /\ Len(magnet.written) = 2

\* C16: every request written to the serial channel, first send or re-send,
\* GET_YAW or OFFSET, ends with a newline.
C16_RequestsEndWithNewline ==
    magnet.pc # "none"
        => \A i \in 1..Len(magnet.written) :
              magnet.written[i][Len(magnet.written[i])] = NL

\* C17: a step asked of move is transmitted exactly when min <= step <= max,
\* both ends included; a step outside fails with the out-of-range error, with
\* no bus transaction and the control table untouched; the step drawn by
\* ServoObject.reset is never rejected.
C17_StepsWithinRange ==
    (servo.pc = "ready" /\ servo.op \in {"move", "reset"})
        => LET step == servo.requested[1]
               inside == servo.min <= step /\ step <= servo.max
           IN  /\ inside => (servo.raised # "OutOfRangeError" /\ Len(servo.txs) >= 1
                             /\ servo.txs[1] = [address |-> 30, width |-> 2, value |-> step])
               /\ ~inside => (servo.raised = "OutOfRangeError" /\ servo.txs = <<>>
                              /\ servo.mem = servo.prev)
               /\ (servo.op = "reset") => inside

\* a move to max itself was transmitted and is in the goal register; the
\* servo's table held another goal before
C17_Witness ==
    /\ servo.pc = "ready" /\ servo.op = "move" /\ ~servo.failed
    /\ servo.requested = <<servo.max>>
    /\ servo.mem[30] = servo.max /\ servo.prev[30] # servo.max

ServoClassOps == {"turn_on_LED", "limit_torque", "enable_torque", "disable_torque", "limit_speed"}

\* C18: a Servo operation whose bus transaction failed (communication result
\* not success, or a servo error) leaves with an error for its caller; it
\* never returns normally.
C18_FailedTransactionIsRaised ==
    (servo.pc = "ready" /\ servo.op \in ServoClassOps /\ servo.failed)
        => servo.raised = "CommError"

\* the width in bytes the register map gives the register at an address
DeclaredWidth(address) == IF address \in {24, 25, 49} THEN 1 ELSE 2

\* the bytes of the register a transaction addresses
RegisterOf(tx) == tx.address..(tx.address + DeclaredWidth(tx.address) - 1)

\* C19: every transaction of a Servo operation has the width the register
\* map declares for its register, and an operation changes no byte outside
\* the registers it addresses (enable_torque leaves led as it was).
C19_DeclaredWidthAndFrame ==
    (servo.pc = "ready" /\ servo.op \in ServoClassOps)
        => /\ \A i \in 1..Len(servo.txs) :
                servo.txs[i].width = DeclaredWidth(servo.txs[i].address)
           /\ \A a \in RegisterBytes :
                (\A i \in 1..Len(servo.txs) : a \notin RegisterOf(servo.txs[i]))
                    => servo.mem[a] = servo.prev[a]

\* C20: enable_torque on a servo whose torque is enabled, and disable_torque
\* on one whose torque is disabled, leave the whole control table as it was;
\* and a second successful call in a row changes nothing the first did not.
C20_TorqueCallsIdempotent ==
    /\ (servo.pc = "ready" /\ servo.op = "enable_torque" /\ ~servo.failed)
         => /\ servo.prev[24] = 1 => servo.mem = servo.prev
            /\ write2ByteTxRx(servo.mem, addresses("torque_enable"), 1, "ok") = servo.mem
    /\ (servo.pc = "ready" /\ servo.op = "disable_torque" /\ ~servo.failed)
         => /\ servo.prev[24] = 0 => servo.mem = servo.prev
            /\ write1ByteTxRx(servo.mem, addresses("torque_enable"), 0, "ok") = servo.mem

\* C21: when a transaction of reset_target_servo (enable torque, move to
\* home, disable torque) faults, the call leaves with an EnvironmentError
\* that wraps the fault; the fault neither escapes as it is nor is swallowed.
C21_TargetResetFaultIsWrapped ==
    (servo.pc = "ready" /\ servo.op = "reset_target_servo" /\ servo.failed)
        => servo.raised = "EnvironmentError"

\* a disable-torque write: one byte 0 to torque_enable
IsDisableTorque(tx) == tx.address = 24 /\ tx.value = 0
\* an enable-torque write: 1 to torque_enable
IsEnableTorque(tx) == tx.address = 24 /\ tx.value = 1
\* the write of a step to goal_position
IsMoveTo(tx, step) == tx.address = 30 /\ tx.value = step

\* C29: reset issues the move and then the disable-torque write;
\* reset_target_servo issues enable-torque, the move to home and then
\* disable-torque; a call that completes without fault has issued all of
\* them, its last transaction is the disable-torque write, and the servo's
\* torque is disabled.
C29_ResetsEndWithTorqueDisabled ==
    /\ (servo.pc = "ready" /\ servo.op = "reset")
         => /\ Len(servo.txs) <= 2
            /\ Len(servo.txs) >= 1 => IsMoveTo(servo.txs[1], servo.requested[1])
            /\ Len(servo.txs) >= 2 => IsDisableTorque(servo.txs[2])
            /\ (servo.raised = "none" /\ ~servo.failed)
                 => (Len(servo.txs) = 2 /\ servo.mem[24] = 0)
    /\ (servo.pc = "ready" /\ servo.op = "reset_target_servo")
         => /\ Len(servo.txs) <= 3
            /\ Len(servo.txs) >= 1 => IsEnableTorque(servo.txs[1])
            /\ Len(servo.txs) >= 2 => IsMoveTo(servo.txs[2], servo.requested[1])
            /\ Len(servo.txs) >= 3 => IsDisableTorque(servo.txs[3])
            /\ (servo.raised = "none" /\ ~servo.failed)
                 => (Len(servo.txs) = 3 /\ servo.mem[24] = 0)

\* reset_target_servo completed without fault on a servo whose torque was
\* enabled, and left it disabled at the home position
C29_Witness ==
    /\ servo.pc = "ready" /\ servo.op = "reset_target_servo"
    /\ servo.raised = "none" /\ ~servo.failed
    /\ Len(servo.txs) = 3 /\ servo.prev[24] = 1 /\ servo.mem[24] = 0
    /\ servo.mem[30] = servo.requested[1]

\* C22: the goal changes only when Environment.reset completes: no step of
\* Environment.step, no reward computation and nothing else in the trainer
\* changes target_angle, so all steps between two resets are rewarded
\* against one goal; and the goal a reset leaves is drawn again, whatever
\* the goal was before.
C22_GoalChangesOnlyAtReset ==
    [][/\ (target_angle' # target_angle) => (pc = "reset_try" /\ pc' = "train_loop")
       /\ (pc = "reset_try" /\ pc' = "train_loop")
            => target_angle' \in {choose_target_angle(r) : r \in RandintDraws}]_vars

\* an episode ended on its goal (done, within the tolerance of the old goal)
\* and the reset that followed left a goal that the same yaw is far from
C22_Witness ==
    /\ pc = "train_loop" /\ episode_num >= 1
    /\ ret.done /\ ~ret.recovered
    /\ final_marker_pose.pose # None
    /\ Abs(target_angle - final_marker_pose.pose[1]) > RotTolerance

\* C23: the goal of the rotation task, at construction and after every
\* reset, is one of 0, 90, 180 and 270, never the sentinel -1.
C23_GoalIsQuadrantAngle ==
    pc \notin {"devices", "harness"} => target_angle \in {0, 90, 180, 270}

\* a reset after the first episode drew 4 and left the goal 0
C23_Witness ==
    /\ pc = "train_loop" /\ episode_num >= 1
    /\ ret.done /\ ~ret.recovered /\ final_marker_pose.pose # None
    /\ Abs(0 - final_marker_pose.pose[1]) > RotTolerance
    /\ target_angle = 0

\* C24: the yaw ServoObject.get_yaw returns for a raw step of [0, 4095] is at
\* least 0 and below 360.
C24_YawInHalfOpenCircle ==
    servo.pc = "yaw_returned"
        => (0 <= servo.yaw.num /\ servo.yaw.num < FullCircle * servo.yaw.den)

\* C28: in the rotation task, with both poses read and the post-move yaw
\* more than 3 from the goal, done is false and the reward is the progress
\* |target - before| - |target - after| when that is below -3 or above 3,
\* and 0 when it is any of -3..3.
C28_ProgressClippedByNoiseBand ==
    (/\ rf.variant = "rotation" /\ rf.applied
     /\ rf.before # None /\ rf.after # None
     /\ PostMoveDistance > 3)
        => /\ ~rf.out.done
           /\ ~rf.out.raised
           /\ rf.out.reward = IF RotationProgress \in (-3)..3 THEN 0 ELSE RotationProgress

\* a progress of exactly 3, the edge of the band, was rewarded with 0
C28_Witness ==
    /\ rf.variant = "rotation" /\ rf.applied
    /\ rf.before # None /\ rf.after # None
    /\ PostMoveDistance > 3
    /\ RotationProgress = 3
    /\ rf.out.reward = 0 /\ ~rf.out.done

\* C25: at the end of every training or evaluation step, with action_type
\* "velocity" the trainer has slept exactly max(0, step_time_period -
\* process_time) and raised nothing, also when process_time is the period or
\* more; with another action_type it has not slept.
C25_SleepsRestOfPeriod ==
    (loop.pc # "none" /\ loop.paced.after # "none")
        => IF loop.action_type = "velocity"
           THEN /\ loop.paced.called /\ ~loop.paced.raised
                /\ loop.paced.slept =
                     IF loop.step_time_period - loop.paced.process_time >= 0
                     THEN loop.step_time_period - loop.paced.process_time ELSE 0
           ELSE ~loop.paced.called /\ loop.paced.slept = 0

\* an evaluation step took longer than the period: no sleep, no error
C25_Witness ==
    /\ loop.pc = "eval_while" /\ loop.paced.after = "eval"
    /\ loop.action_type = "velocity"
    /\ loop.paced.process_time > loop.step_time_period
    /\ loop.paced.slept = 0 /\ ~loop.paced.raised

\* C26: training step n explores iff n < max_steps_exploration and otherwise
\* asks the agent; after a step that asked the agent none explores; and
\* train_policy is called only at steps n >= max_steps_exploration.
C26_ModeByStepCount ==
    loop.pc # "none"
        => /\ Len(loop.modes) \in {loop.total_step_counter, loop.total_step_counter + 1}
           /\ \A i \in 1..Len(loop.modes) :
                (loop.modes[i] = "explore") <=> (i - 1 < loop.max_steps_exploration)
           /\ \A i, j \in 1..Len(loop.modes) :
                (i < j /\ loop.modes[i] = "policy") => loop.modes[j] = "policy"
           /\ \A n \in loop.updateSteps : n >= loop.max_steps_exploration

\* one exploration step, then two steps of the agent, with policy updates
C26_Witness ==
    /\ loop.pc # "none"
    /\ loop.max_steps_exploration = 1
    /\ Len(loop.modes) >= 3
    /\ SubSeq(loop.modes, 1, 3) = <<"explore", "policy", "policy">>
    /\ {1, 2} \subseteq loop.updateSteps

EvalPcs == {"eval_start", "eval_for", "eval_while", "eval_step", "eval_after"}

\* C27: no step taken inside evaluation_loop, from its entry to its return,
\* adds a transition to the memory or calls train_policy.
C27_EvaluationLearnsNothing ==
    [][loop.pc \in EvalPcs
         => (loop'.memory = loop.memory /\ loop'.policy_updates = loop.policy_updates)]_vars

\* evaluation_loop has returned after issuing steps, and the memory holds
\* the one transition of the training step before it
C27_Witness ==
    /\ loop.pc = "train_end" /\ loop.evalStepped /\ ~loop.evaluate
    /\ loop.total_step_counter = 0
    /\ loop.memory = <<0>>

AddedPcs == {"train_end"} \cup EvalPcs

\* what holds of the memory in a state of train
C31_MemoryOfState(l) ==
    /\ \A i \in 1..Len(l.memory) : l.memory[i] = i - 1
    /\ l.pc \in {"train_for", "train_step", "train_after", "train_done"}
         => Len(l.memory) = l.total_step_counter
    /\ l.pc = "train_after" => l.iteration = <<"environment_step">>
    /\ l.pc \in AddedPcs
         => /\ Len(l.memory) = l.total_step_counter + 1
            /\ Len(l.iteration) >= 2
            /\ l.iteration[1] = "environment_step"
            /\ l.iteration[2] = "memory.add"
            /\ \A i \in 3..Len(l.iteration) : l.iteration[i] = "train_policy"
            /\ l.added.n = l.total_step_counter
            /\ l.added.recovered = l.recovered
            /\ l.added.next_state = l.next_state
            /\ l.added.done = l.done
            /\ l.added.extrinsic = l.reward_extrinsic
    /\ (Len(l.memory) > 0 /\ l.added.recovered)
         => (l.added.extrinsic = 0 /\ ~l.added.done)

\* C31: every iteration of train that does not end the process adds exactly
\* one transition to the memory, right after the step and before any policy
\* update of the iteration; a step whose fault was recovered is stored too,
\* with extrinsic reward 0 and done false; and the state of a transition is
\* the next_state of the one added before it unless an environment_reset of
\* train returned in between
C31_OneTransitionPerIteration ==
    [][/\ C31_MemoryOfState(loop')
       /\ Len(loop'.memory) \in {Len(loop.memory), Len(loop.memory) + 1}
       /\ (Len(loop'.memory) = Len(loop.memory) + 1 /\ Len(loop.memory) >= 1)
            => (loop'.added.afterReset \/ loop'.added.state = loop.added.next_state)
       /\ (Len(loop'.memory) = Len(loop.memory) + 1 /\ loop'.added.afterReset)
            => loop'.added.state = ResetObservation]_vars

\* a recovered step was stored behind the transition of the step before it,
\* and the policy was updated after it
C31_Witness ==
    /\ loop.pc = "train_end" /\ Len(loop.memory) = 2
    /\ loop.added.recovered /\ ~loop.added.afterReset
    /\ loop.added.state = 1 /\ loop.added.next_state = 2
    /\ Len(loop.iteration) >= 3

\* the positions of train outside evaluation_loop
TrainPcs == {"train_for", "train_step", "train_after", "train_end", "train_done"}

\* C32: evaluation_loop is entered only at the end of a training episode and
\* only when a threshold step (n + 1 divisible by number_steps_per_evaluation)
\* was passed since the last evaluation; between a threshold and that entry
\* the evaluate flag stays set, it is clear again once the evaluation has
\* returned, no episode end with a pending evaluation is left without one,
\* and one episode end enters at most one evaluation however many thresholds
\* were passed
C32_EvaluationAtEpisodeEnd ==
    /\ loop.pc = "eval_start"
         => ((loop.done \/ loop.truncated) /\ loop.pending >= 1 /\ loop.evalsAtEnd = 0)
    /\ loop.pc \in TrainPcs => (loop.evaluate <=> loop.pending >= 1)
    /\ loop.pc \in EvalPcs => (loop.done \/ loop.truncated)
    /\ (loop.pc = "train_end" /\ (loop.done \/ loop.truncated))
         => (~loop.evaluate /\ loop.pending = 0)
    /\ loop.evalsAtEnd <= 1

\* two thresholds were passed during one episode, and the one evaluation of
\* its end has returned
C32_Witness ==
    /\ loop.pc = "train_end" /\ loop.evalsAtEnd = 1
    /\ loop.number_steps_per_evaluation = 1
    /\ loop.total_step_counter = 1 /\ ~loop.added.afterReset
    /\ ~loop.evaluate

\* C33: a call of get_marker_pose acquires at least one and at most 4
\* frames and none after the first frame in which any marker was detected;
\* it returns the requested marker's pose when that marker is among the
\* detections of the frame acquired last, and None otherwise
C33_FramesUntilAnyMarker ==
    /\ aruco.pc \in {"pose_loop", "pose_returned"}
         => /\ aruco.frames <= 4
            /\ aruco.firstAnyAt # 0 => aruco.frames = aruco.firstAnyAt
    /\ aruco.pc = "pose_returned"
         => /\ aruco.frames >= 1
            /\ aruco.frames = (IF aruco.firstAnyAt # 0 THEN aruco.firstAnyAt ELSE 4)
            /\ aruco.result = IF aruco.marker_id \in DOMAIN aruco.lastFrame
                              THEN <<aruco.lastFrame[aruco.marker_id]>>
                              ELSE None

\* the second frame showed only the other marker: the call returned None
\* with two attempts left
C33_Witness ==
    /\ aruco.pc = "pose_returned"
    /\ aruco.marker_id = 0 /\ DOMAIN aruco.lastFrame = {1}
    /\ aruco.frames = 2 /\ aruco.result = None

====
